---------------------------- MODULE Spec2Model ----------------------------
(***************************************************************************)
(* A model of desimodel.focalplane and desimodel.footprint.                *)
(*                                                                         *)
(* Numbers.  Python floats are modelled in fixed point:                    *)
(*   - sky coordinates (degrees) in units of 1/DegUnit degree, so that     *)
(*     90.0001 and 360 - 0.0001 are exact;                                 *)
(*   - unit-vector components, sines, cosines and angles in radians in     *)
(*     units of 1/Scale;                                                   *)
(*   - focal-plane distances in whole millimetres.                         *)
(* Sines and cosines are read from a table on whole degrees, so the model  *)
(* resolves angles to about one degree and lengths to about 1e-4.          *)
(***************************************************************************)
EXTENDS Integers, Sequences, FiniteSets

VARIABLES
    ra, dec,            \* FocalPlane.ra, FocalPlane.dec: the stored pointing
    op,                 \* the operation called last
    arg1, arg2,         \* its arguments: (ra, dec), or (x, y) for xy2radec
    outcome,            \* "ok", or the error it raised
    res1, res2,         \* what it returned: (x, y), or (ra, dec) for xy2radec
    computed,           \* whether it reached its transform
    obj_ra, obj_dec     \* the (ra, dec) that the last radec2xy mapped to
                        \* (res1, res2) under the stored pointing, else << >>

fpvars == <<ra, dec, op, arg1, arg2, outcome, res1, res2, computed,
            obj_ra, obj_dec>>

VARIABLES
    tile_radius_mm,     \* the global _tile_radius_mm: << >> is None, else <<v>>
    tile_radius_deg,    \* the global _tile_radius_deg, likewise
    threads,            \* the threads of the process
    thr,                \* per thread: where it is in which call, its rmax,
                        \* the calls it will still make, and what its
                        \* finished calls returned
    ran,                \* how often each computation and each table load ran
    ret_mm, ret_deg     \* the values get_tile_radius_mm / _deg have returned

cachevars == <<tile_radius_mm, tile_radius_deg, threads, thr, ran,
               ret_mm, ret_deg>>

VARIABLES
    tiles,              \* the tile table: rows of <<RA, DEC>> in whole degrees
    pt_ra, pt_dec,      \* the query arrays ra, dec: their shape and their
                        \* values in whole degrees, row by row
    radius_deg,         \* the tile radius in degrees
    in_desi,            \* what is_point_in_desi did on these inputs
    tiles_over,         \* what find_tiles_over_point did
    points_in           \* what find_points_in_tiles did

footvars == <<tiles, pt_ra, pt_dec, radius_deg, in_desi, tiles_over, points_in>>

VARIABLES
    pix_args,           \* the arguments of the last tileids2pix call
    pix_out             \* its outcome: the pixels returned or the error raised

pixvars == <<pix_args, pix_out>>

VARIABLES
    pa_radius,          \* the argument radius of the plate_angle call
    angle_guess,        \* its local angle_guess, per element
    dist_guess,         \* its local dist_guess, per element
    pa_pc,              \* where the call is: "idle", "loop" or "done"
    pa_iter             \* how often the body of its loop has run

newtonvars == <<pa_radius, angle_guess, dist_guess, pa_pc, pa_iter>>

\* ------------------------------------------------------------ bounds ----

\* Longest ra/dec array handed to an operation (a length of 1 stands for a
\* scalar as well: numpy treats both elementwise).
MaxLen == 2

\* Calls of the tile-radius functions made by a single thread
MaxCalls == 4

\* Threads calling the tile-radius functions at once, and calls per thread
NThreads == 2

MaxCallsMT == 2

\* Rows of the tile table and length of a one-dimensional query array
MaxTiles == 2

MaxPts == 2

\* Tile ids in one tileids2pix request
MaxIds == 2

\* Runs of the body of plate_angle's loop that the model follows
MaxIter == 8

\* ------------------------------------------------------- fixed point ----

Scale == 100 * 100
DegUnit == 100 * 100

Abs(v) == IF v < 0 THEN -v ELSE v

Sign(v) == IF v < 0 THEN -1 ELSE IF v > 0 THEN 1 ELSE 0

Max2(a, b) == IF a >= b THEN a ELSE b

\* a * b / Scale, rounded to nearest
Mul(a, b) == (a * b + Scale \div 2) \div Scale

\* a * b / c for a large a, without leaving 32 bits (c > 0)
MulDiv(a, b, c) == (a \div c) * b + ((a % c) * b + c \div 2) \div c

RECURSIVE IsqrtIter(_, _, _)
IsqrtIter(n, lo, hi) ==
    IF lo >= hi THEN lo
    ELSE LET mid == (lo + hi + 1) \div 2
         IN  IF mid * mid <= n THEN IsqrtIter(n, mid, hi)
             ELSE IsqrtIter(n, lo, mid - 1)

\* np.sqrt on a value n = v * Scale^2 >= 0: the result is sqrt(v) * Scale
Isqrt(n) ==
    LET r == IsqrtIter(n, 0, 46340)
    IN  IF r < 46340 /\ (r + 1) * (r + 1) - n < n - r * r THEN r + 1 ELSE r

\* np.sqrt(x*x + y*y) for x, y in millimetres
Hypot(x, y) ==
    LET m == Max2(Abs(x), Abs(y))
        k == IF m <= 30000 THEN 1 ELSE IF m <= 300000 THEN 10 ELSE 100
    IN  k * Isqrt((x \div k) * (x \div k) + (y \div k) * (y \div k))

\* sin of d whole degrees, times Scale, for d in 0..90
SinTab ==
    << 0, 175, 349, 523, 698, 872, 1045, 1219, 1392, 1564, 1736, 1908, 2079,
       2250, 2419, 2588, 2756, 2924, 3090, 3256, 3420, 3584, 3746, 3907,
       4067, 4226, 4384, 4540, 4695, 4848, 5000, 5150, 5299, 5446, 5592,
       5736, 5878, 6018, 6157, 6293, 6428, 6561, 6691, 6820, 6947, 7071,
       7193, 7314, 7431, 7547, 7660, 7771, 7880, 7986, 8090, 8192, 8290,
       8387, 8480, 8572, 8660, 8746, 8829, 8910, 8988, 9063, 9135, 9205,
       9272, 9336, 9397, 9455, 9511, 9563, 9613, 9659, 9703, 9744, 9781,
       9816, 9848, 9877, 9903, 9925, 9945, 9962, 9976, 9986, 9994, 9998,
       10000 >>

SinDeg(d) ==
    LET m == d % 360
    IN  IF m <= 90 THEN SinTab[m + 1]
        ELSE IF m <= 180 THEN SinTab[180 - m + 1]
        ELSE IF m <= 270 THEN -SinTab[m - 180 + 1]
        ELSE -SinTab[360 - m + 1]

CosDeg(d) == SinDeg(d + 90)

\* a coordinate in 1/DegUnit degrees, to the nearest whole degree
RoundDeg(a) == (a + DegUnit \div 2) \div DegUnit

\* np.sin(a * np.pi / 180.0) and np.cos(a * np.pi / 180.0)
SinD(a) == SinDeg(RoundDeg(a))

CosD(a) == CosDeg(RoundDeg(a))

\* an angle t in radians (times Scale) to the nearest whole degree
RadToDeg(t) == (t * 57296 + 5000000) \div 10000000

\* np.sin(t) and np.cos(t)
SinR(t) == SinDeg(RadToDeg(t))

CosR(t) == CosDeg(RadToDeg(t))

RECURSIVE ArcCosSearch(_, _, _)
ArcCosSearch(v, lo, hi) ==
    IF lo >= hi THEN lo
    ELSE LET mid == (lo + hi) \div 2
         IN  IF CosDeg(mid) <= v THEN ArcCosSearch(v, lo, mid)
             ELSE ArcCosSearch(v, mid + 1, hi)

\* np.arccos(v) in whole degrees, 0..180 (the cosine decreases there)
ArcCos(v) ==
    LET hi == ArcCosSearch(v, 0, 180)
        lo == IF hi > 0 THEN hi - 1 ELSE 0
    IN  IF Abs(CosDeg(lo) - v) < Abs(CosDeg(hi) - v) THEN lo ELSE hi

\* The least a in lo..hi with ys * cos(a) - xs * sin(a) <= 0, for xs, ys >= 0
\* (the difference decreases over 0..90)
RECURSIVE ArcTanSearch(_, _, _, _)
ArcTanSearch(xs, ys, lo, hi) ==
    IF lo >= hi THEN lo
    ELSE LET mid == (lo + hi) \div 2
         IN  IF ys * CosDeg(mid) - xs * SinDeg(mid) <= 0
             THEN ArcTanSearch(xs, ys, lo, mid)
             ELSE ArcTanSearch(xs, ys, mid + 1, hi)

\* arctan(ys / xs) in whole degrees, 0..90, for xs, ys >= 0 not both 0
ArcTanQuadrant(xs, ys) ==
    LET hi == ArcTanSearch(xs, ys, 0, 90)
        lo == IF hi > 0 THEN hi - 1 ELSE 0
    IN  IF Abs(ys * CosDeg(lo) - xs * SinDeg(lo))
             < Abs(ys * CosDeg(hi) - xs * SinDeg(hi))
        THEN lo ELSE hi

\* np.arctan2(y, x) in whole degrees, -180..180; arctan2(0, 0) = 0
ArcTan2(y, x) ==
    IF x = 0 /\ y = 0 THEN 0
    ELSE LET h == Max2(Abs(x), Abs(y))
             k == IF h <= Scale THEN 1 ELSE (h \div Scale) + 1
             a == ArcTanQuadrant(Abs(x) \div k, Abs(y) \div k)
         IN  IF x >= 0 THEN (IF y >= 0 THEN a ELSE -a)
             ELSE (IF y >= 0 THEN 180 - a ELSE a - 180)

\* np.remainder(a, 360.0) on whole degrees
Remainder360(a) == a % 360

\* ------------------------------------------------------- plate model ----

\* FocalPlane.plate_dist: radius in mm of the angle theta (radians * Scale),
\* the Horner loop over p = [8.297E5, -1750.0, 1.394E4, 0.0]
plate_dist(theta) ==
    LET r1 == 0 + 829700
        r2 == MulDiv(r1, theta, Scale) + (-1750)
        r3 == MulDiv(r2, theta, Scale) + 13940
        r4 == MulDiv(r3, theta, Scale) + 0
    IN  r4

RECURSIVE plate_angle_search(_, _, _)
plate_angle_search(radius, lo, hi) ==
    IF lo >= hi THEN lo
    ELSE LET mid == (lo + hi) \div 2
         IN  IF plate_dist(mid) >= radius
             THEN plate_angle_search(radius, lo, mid)
             ELSE plate_angle_search(radius, mid + 1, hi)

\* FocalPlane.plate_angle: the angle the Newton-Raphson loop converges to,
\* that is the root of plate_dist(angle) = radius (plate_dist is increasing),
\* to the resolution of the angle grid
plate_angle(radius) ==
    LET hi == plate_angle_search(radius, 0, 2 * Scale)
        lo == IF hi > 0 THEN hi - 1 ELSE 0
    IN  IF Abs(plate_dist(lo) - radius) <= Abs(plate_dist(hi) - radius)
        THEN lo ELSE hi


\* -------------------------------------------------------- FocalPlane ----

\* ra, dec arrays of one shape, built from a set of (ra, dec) elements
Arrays(E) ==
    UNION {{<<[i \in 1..n |-> f[i][1]], [i \in 1..n |-> f[i][2]]>> :
                f \in [1..n -> E]} : n \in 1..MaxLen}

\* The bounds of the valid range and the values next to them
BoundaryElems ==
    { <<0, -90 * DegUnit>>, <<360 * DegUnit - 1, 90 * DegUnit>>,
      <<360 * DegUnit, 0>>, <<0, 90 * DegUnit + 1>>,
      <<-1, 0>>, <<0, -90 * DegUnit - 1>> }

InRange(e) ==
    /\ 0 <= e[1] /\ e[1] < 360 * DegUnit
    /\ -90 * DegUnit <= e[2] /\ e[2] <= 90 * DegUnit

\* The arrays over BoundaryElems with at most one element out of range
BoundaryArrays ==
    UNION {{<<[i \in 1..n |-> f[i][1]], [i \in 1..n |-> f[i][2]]>> :
                f \in {g \in [1..n -> BoundaryElems] :
                         Cardinality({i \in 1..n : ~ InRange(g[i])}) <= 1}} :
           n \in 1..MaxLen}

\* Pointings and objects some tens of degrees apart, away from the poles
GridElems ==
    { <<0, 0>>, <<60 * DegUnit, 0>>, <<60 * DegUnit, 60 * DegUnit>> }

GridArrays == Arrays(GridElems)

\* Focal-plane positions in mm handed to xy2radec directly
XYArrays == { << <<0>>, <<0>> >>, << <<243>>, <<0>> >>, << <<0>>, <<-243>> >> }

\* numpy broadcasting of two one-dimensional shapes
Compatible(n, m) == n = m \/ n = 1 \/ m = 1

At(s, i) == IF Len(s) = 1 THEN s[1] ELSE s[i]

\* FocalPlane._check_radec: TRUE when it returns, FALSE when it raises
check_radec_wrong_upper(r, d) ==
    /\ ~ \E i \in 1..Len(r) : (r[i] < 0) \/ (r[i] > 360 * DegUnit)
    /\ ~ \E i \in 1..Len(d) : (d[i] < -90 * DegUnit) \/ (d[i] > 90 * DegUnit)

check_radec_first_only(r, d) ==
    /\ ~ ((r[1] < 0) \/ (r[1] >= 360 * DegUnit))
    /\ ~ ((d[1] < -90 * DegUnit) \/ (d[1] > 90 * DegUnit))

check_radec(r, d) ==
    /\ ~ \E i \in 1..Len(r) : (r[i] < 0) \/ (r[i] >= 360 * DegUnit)
    /\ ~ \E i \in 1..Len(d) : (d[i] < -90 * DegUnit) \/ (d[i] > 90 * DegUnit)

\* a / (b + epsilon) for the 1E-12 and 1E-10 of the code: below the model's
\* resolution unless b is 0, and then a, a multiple of the same sine, is 0
DivEps(a, b) == IF b = 0 THEN 0 ELSE (a * Scale + Sign(a) * (b \div 2)) \div b

\* <<sin(theta) cos(phi), sin(theta) sin(phi), cos(theta)>> for a colatitude
\* theta and a longitude phi in 1/DegUnit degrees: o_hat and t_hat
UnitVector(theta, phi) ==
    <<Mul(SinD(theta), CosD(phi)), Mul(SinD(theta), SinD(phi)), CosD(theta)>>

\* <<costheta, sintheta, cosphi, sinphi>> of the pointing's unit vector
TileFrameOf(t_hat, sintheta) ==
    <<t_hat[3], sintheta, DivEps(t_hat[1], sintheta), DivEps(t_hat[2], sintheta)>>

TileFrame(t_hat) == TileFrameOf(t_hat, Isqrt(Scale * Scale - t_hat[3] * t_hat[3]))

\* radec2xy's first rotation, n_hat, and its second, nn_hat
radec2xy_n_hat(o_hat, f) ==
    <<Mul(f[4], o_hat[1]) - Mul(f[3], o_hat[2]),
      Mul(f[3], o_hat[1]) + Mul(f[4], o_hat[2]),
      o_hat[3]>>

radec2xy_nn_hat(n_hat, f) ==
    <<n_hat[1],
      Mul(f[1], n_hat[2]) - Mul(f[2], n_hat[3]),
      Mul(f[2], n_hat[2]) + Mul(f[1], n_hat[3])>>

\* x = radius * nn_hat0 / theta, y = radius * nn_hat1 / theta.  A theta of 0
\* in the model is a theta of the order of the code's 1E-12, and the radius
\* one of 1E-8 mm.
radec2xy_xy(nn_hat, theta, radius) ==
    IF theta = 0 THEN <<0, 0>>
    ELSE <<MulDiv(radius, nn_hat[1], theta), MulDiv(radius, nn_hat[2], theta)>>

\* theta = sqrt(nn_hat0^2 + nn_hat1^2), handed to plate_dist as it is
radec2xy_theta(nn_hat) == Isqrt(nn_hat[1] * nn_hat[1] + nn_hat[2] * nn_hat[2])

radec2xy_plate(nn_hat, theta) == radec2xy_xy(nn_hat, theta, plate_dist(theta))

radec2xy_rotated(o_hat, f) == radec2xy_nn_hat(radec2xy_n_hat(o_hat, f), f)

radec2xy_project(nn_hat) == radec2xy_plate(nn_hat, radec2xy_theta(nn_hat))

\* FocalPlane.radec2xy on one element: <<x, y>> in mm
radec2xy_elem(tra, tdec, r, d) ==
    radec2xy_project(
        radec2xy_rotated(UnitVector(90 * DegUnit - d, r),
                         TileFrame(UnitVector(90 * DegUnit - tdec, tra))))

\* xy2radec's object vector from the plate: object_theta in radians from
\* plate_angle, object_phi in whole degrees from arctan2
xy2radec_o_hat(object_theta, object_phi) ==
    <<Mul(SinR(object_theta), CosDeg(object_phi)),
      Mul(SinR(object_theta), SinDeg(object_phi)),
      CosR(object_theta)>>

\* xy2radec's first rotation, n_hat, and its second, nn_hat
xy2radec_n_hat(o_hat, f) ==
    <<o_hat[1],
      Mul(f[1], o_hat[2]) + Mul(f[2], o_hat[3]),
      - Mul(f[2], o_hat[2]) + Mul(f[1], o_hat[3])>>

xy2radec_nn_hat(n_hat, f) ==
    <<Mul(f[4], n_hat[1]) + Mul(f[3], n_hat[2]),
      - Mul(f[3], n_hat[1]) + Mul(f[4], n_hat[2]),
      n_hat[3]>>

\* object_dec = 90 - arccos(nn_hat2) and object_ra, the remainder taken twice
xy2radec_radec(nn_hat) ==
    <<Remainder360(Remainder360(ArcTan2(nn_hat[2], nn_hat[1]))) * DegUnit,
      (90 - ArcCos(nn_hat[3])) * DegUnit>>

xy2radec_rotated(o_hat, f) == xy2radec_nn_hat(xy2radec_n_hat(o_hat, f), f)

\* FocalPlane.xy2radec on one element: <<ra, dec>> in 1/DegUnit degrees
xy2radec_elem(tra, tdec, x, y) ==
    xy2radec_radec(
        xy2radec_rotated(
            xy2radec_o_hat(plate_angle(Hypot(x, y)), ArcTan2(y, x)),
            TileFrame(UnitVector(90 * DegUnit - tdec, tra))))

\* FocalPlane.radec2xy past its check, elementwise over broadcast shapes
radec2xy(tra, tdec, r, d) ==
    LET n == Max2(Len(r), Len(tra))
        xy(i) == radec2xy_elem(At(tra, i), At(tdec, i), At(r, i), At(d, i))
    IN  <<[i \in 1..n |-> xy(i)[1]], [i \in 1..n |-> xy(i)[2]]>>

\* FocalPlane.xy2radec between its checks, elementwise over broadcast shapes
xy2radec(tra, tdec, x, y) ==
    LET n == Max2(Len(x), Len(tra))
        rd(i) == xy2radec_elem(At(tra, i), At(tdec, i), At(x, i), At(y, i))
    IN  <<[i \in 1..n |-> rd(i)[1]], [i \in 1..n |-> rd(i)[2]]>>

\* What a call leaves behind when it raises before returning anything
Raised(name, a, b, err, reached) ==
    /\ op' = name
    /\ arg1' = a
    /\ arg2' = b
    /\ outcome' = err
    /\ computed' = reached
    /\ res1' = << >>
    /\ res2' = << >>
    /\ obj_ra' = << >>
    /\ obj_dec' = << >>

\* FocalPlane.__init__ with arguments that pass the check: a new instance
\* replaces the one the model follows.  When the check raises there is no new
\* instance, and the one followed is as it was.
Construct(r, d) ==
    IF check_radec(r, d)
    THEN /\ ra' = r
         /\ dec' = d
         /\ op' = "init"
         /\ arg1' = r
         /\ arg2' = d
         /\ outcome' = "ok"
         /\ computed' = FALSE
         /\ res1' = << >>
         /\ res2' = << >>
         /\ obj_ra' = << >>
         /\ obj_dec' = << >>
    ELSE /\ Raised("init", r, d, "InvalidCoordinate", FALSE)
         /\ UNCHANGED <<ra, dec>>

\* The stored pointing after FocalPlane.set_tele_pointing(r, d)
set_tele_pointing_ra_first(tra, tdec, r, d) ==
    IF ~ \E i \in 1..Len(r) : (r[i] < 0) \/ (r[i] >= 360 * DegUnit)
    THEN IF check_radec(r, d) THEN <<r, d>> ELSE <<r, tdec>>
    ELSE <<tra, tdec>>

set_tele_pointing(tra, tdec, r, d) ==
    IF check_radec(r, d) THEN <<r, d>> ELSE <<tra, tdec>>

SetTelePointing(r, d) ==
    /\ ra' = set_tele_pointing(ra, dec, r, d)[1]
    /\ dec' = set_tele_pointing(ra, dec, r, d)[2]
    /\ IF check_radec(r, d)
       THEN /\ op' = "set_tele_pointing"
            /\ arg1' = r
            /\ arg2' = d
            /\ outcome' = "ok"
            /\ computed' = FALSE
            /\ res1' = << >>
            /\ res2' = << >>
            /\ obj_ra' = << >>
            /\ obj_dec' = << >>
       ELSE Raised("set_tele_pointing", r, d, "InvalidCoordinate", FALSE)

\* FocalPlane.radec2xy(r, d): the check, then the transform, in which numpy
\* raises when the arguments and the pointing do not broadcast
Radec2xy(r, d) ==
    /\ UNCHANGED <<ra, dec>>
    /\ IF ~ check_radec(r, d)
       THEN Raised("radec2xy", r, d, "InvalidCoordinate", FALSE)
       ELSE IF ~ Compatible(Len(r), Len(ra))
       THEN Raised("radec2xy", r, d, "ShapeError", TRUE)
       ELSE /\ op' = "radec2xy"
            /\ arg1' = r
            /\ arg2' = d
            /\ outcome' = "ok"
            /\ computed' = TRUE
            /\ LET out == radec2xy(ra, dec, r, d)
               IN  res1' = out[1] /\ res2' = out[2]
            /\ obj_ra' = r
            /\ obj_dec' = d

\* FocalPlane.xy2radec(x, y): the check of the stored pointing, the
\* transform, the check of the result.  from_last: (x, y) is what the
\* radec2xy before it returned.
Xy2radecCall(x, y, from_last) ==
    /\ UNCHANGED <<ra, dec>>
    /\ IF ~ check_radec(ra, dec)
       THEN Raised("xy2radec", x, y, "InvalidCoordinate", FALSE)
       ELSE IF ~ Compatible(Len(x), Len(ra))
       THEN Raised("xy2radec", x, y, "ShapeError", TRUE)
       ELSE LET out == xy2radec(ra, dec, x, y)
            IN  IF ~ check_radec(out[1], out[2])
                THEN Raised("xy2radec", x, y, "InvalidCoordinate", TRUE)
                ELSE /\ op' = "xy2radec"
                     /\ arg1' = x
                     /\ arg2' = y
                     /\ outcome' = "ok"
                     /\ computed' = TRUE
                     /\ res1' = out[1]
                     /\ res2' = out[2]
                     /\ obj_ra' = IF from_last THEN obj_ra ELSE << >>
                     /\ obj_dec' = IF from_last THEN obj_dec ELSE << >>

Xy2radec(x, y) == Xy2radecCall(x, y, FALSE)

Xy2radecOfLast ==
    /\ op = "radec2xy"
    /\ outcome = "ok"
    /\ Xy2radecCall(res1, res2, TRUE)

\* FocalPlane.radec2pos(r, d): raise NotImplementedError, whatever r and d
Radec2pos_checks_first(r, d) ==
    /\ UNCHANGED <<ra, dec>>
    /\ Raised("radec2pos", r, d,
              IF check_radec(r, d) THEN "Unimplemented" ELSE "InvalidCoordinate",
              FALSE)

Radec2pos(r, d) ==
    /\ UNCHANGED <<ra, dec>>
    /\ Raised("radec2pos", r, d, "Unimplemented", FALSE)

\* The state after FocalPlane(r, d) returned
InitFocalPlane(A) ==
    \E a \in A :
        /\ check_radec(a[1], a[2])
        /\ ra = a[1]
        /\ dec = a[2]
        /\ op = "init"
        /\ arg1 = a[1]
        /\ arg2 = a[2]
        /\ outcome = "ok"
        /\ computed = FALSE
        /\ res1 = << >>
        /\ res2 = << >>
        /\ obj_ra = << >>
        /\ obj_dec = << >>

NextFocalPlane(A) ==
    \/ \E a \in A : Construct(a[1], a[2])
    \/ \E a \in A : SetTelePointing(a[1], a[2])
    \/ \E a \in A : Radec2xy(a[1], a[2])
    \/ \E a \in XYArrays : Xy2radec(a[1], a[2])
    \/ Xy2radecOfLast
    \/ \E a \in A : Radec2pos(a[1], a[2])

\* FocalPlane(): the default pointing, nothing called yet
FocalPlaneIdle == InitFocalPlane({<< <<0>>, <<0>> >>})

\* ---------------------------------------------------- tile radius cache ----

\* desimodel.io.load_fiberpos(): the positioner table, rows of (X, Y) in mm
load_fiberpos == { <<3, 4>>, <<-300, 280>>, <<120, -400>>, <<0, -410>> }

\* desimodel.io.load_platescale(): rows of (radius in mm, theta in 1/DegUnit
\* degrees)
load_platescale == << <<0, 0>>, <<200, 8000>>, <<420, 16500>> >>

SetMax(S) == CHOOSE v \in S : \A w \in S : v >= w

\* np.sqrt(np.max(fp['X']**2 + fp['Y']**2))
max_positioner_radius(fp) == Isqrt(SetMax({r[1] * r[1] + r[2] * r[2] : r \in fp}))

\* One term of the parabola through the three rows of the table
interp_term(x, y, xa, xb, xc) ==
    MulDiv(y, Sign((xa - xb) * (xa - xc)) * (x - xb) * (x - xc),
           Abs((xa - xb) * (xa - xc)))

\* float(interp1d(radius, theta, kind='quadratic')(rmax)) on three rows
interp_quadratic(ps, x) ==
    interp_term(x, ps[1][2], ps[1][1], ps[2][1], ps[3][1])
    + interp_term(x, ps[2][2], ps[2][1], ps[1][1], ps[3][1])
    + interp_term(x, ps[3][2], ps[3][1], ps[1][1], ps[2][1])

\* `_tile_radius_mm is None`, `_tile_radius_deg is None`
is_None_always(slot) == TRUE

is_None(slot) == slot = << >>

\* The globals <<_tile_radius_mm, _tile_radius_deg>> after line 129,
\* _tile_radius_deg = float(fn(rmax))
store_deg_in_mm_slot(mm, deg, v) == << <<v>>, deg >>

store_deg(mm, deg, v) == << mm, <<v>> >>

Idle(n) == [pc |-> "idle", top |-> "none", rmax |-> 0, left |-> n,
            log |-> << >>]

\* A thread calls get_tile_radius_mm() or get_tile_radius_deg()
CallMm(t) ==
    /\ thr[t].pc = "idle"
    /\ thr[t].left > 0
    /\ thr' = [thr EXCEPT ![t].pc = "m1", ![t].top = "mm", ![t].left = @ - 1]
    /\ UNCHANGED <<tile_radius_mm, tile_radius_deg, threads, ran, ret_mm, ret_deg>>

CallDeg(t) ==
    /\ thr[t].pc = "idle"
    /\ thr[t].left > 0
    /\ thr' = [thr EXCEPT ![t].pc = "d1", ![t].top = "deg", ![t].left = @ - 1]
    /\ UNCHANGED <<tile_radius_mm, tile_radius_deg, threads, ran, ret_mm, ret_deg>>

\* get_tile_radius_mm, line 112: if _tile_radius_mm is None
MmCheck(t) ==
    /\ thr[t].pc = "m1"
    /\ thr' = [thr EXCEPT ![t].pc = IF is_None(tile_radius_mm) THEN "m2" ELSE "m4"]
    /\ UNCHANGED <<tile_radius_mm, tile_radius_deg, threads, ran, ret_mm, ret_deg>>

\* lines 113-115: the tables are loaded
MmLoad(t) ==
    /\ thr[t].pc = "m2"
    /\ thr' = [thr EXCEPT ![t].pc = "m3"]
    /\ ran' = [ran EXCEPT !.load_fiberpos = @ + 1]
    /\ UNCHANGED <<tile_radius_mm, tile_radius_deg, threads, ret_mm, ret_deg>>

\* line 116: the radius is computed and stored
MmStore(t) ==
    /\ thr[t].pc = "m3"
    /\ tile_radius_mm' = << max_positioner_radius(load_fiberpos) >>
    /\ thr' = [thr EXCEPT ![t].pc = "m4"]
    /\ ran' = [ran EXCEPT !.mm = @ + 1]
    /\ UNCHANGED <<tile_radius_deg, threads, ret_mm, ret_deg>>

\* line 118: return _tile_radius_mm, to the caller or to line 126 of
\* get_tile_radius_deg
MmReturn(t) ==
    /\ thr[t].pc = "m4"
    /\ ret_mm' = ret_mm \cup {tile_radius_mm}
    /\ thr' = IF thr[t].top = "deg"
              THEN [thr EXCEPT ![t].pc = "d3", ![t].rmax = tile_radius_mm[1]]
              ELSE [thr EXCEPT ![t].pc = "idle", ![t].top = "none",
                               ![t].log = Append(@, <<"mm", tile_radius_mm>>)]
    /\ UNCHANGED <<tile_radius_mm, tile_radius_deg, threads, ran, ret_deg>>

\* get_tile_radius_deg, lines 123-126: if _tile_radius_deg is None, call
\* get_tile_radius_mm()
DegCheck(t) ==
    /\ thr[t].pc = "d1"
    /\ thr' = [thr EXCEPT ![t].pc = IF is_None(tile_radius_deg) THEN "m1" ELSE "d5"]
    /\ UNCHANGED <<tile_radius_mm, tile_radius_deg, threads, ran, ret_mm, ret_deg>>

\* lines 127-128: the platescale table is loaded and the interpolation built
DegLoad(t) ==
    /\ thr[t].pc = "d3"
    /\ thr' = [thr EXCEPT ![t].pc = "d4"]
    /\ ran' = [ran EXCEPT !.load_platescale = @ + 1]
    /\ UNCHANGED <<tile_radius_mm, tile_radius_deg, threads, ret_mm, ret_deg>>

\* line 129: the angle is interpolated and stored
DegStore(t) ==
    /\ thr[t].pc = "d4"
    /\ LET g == store_deg(tile_radius_mm, tile_radius_deg,
                          interp_quadratic(load_platescale, thr[t].rmax))
       IN  tile_radius_mm' = g[1] /\ tile_radius_deg' = g[2]
    /\ thr' = [thr EXCEPT ![t].pc = "d5"]
    /\ ran' = [ran EXCEPT !.deg = @ + 1]
    /\ UNCHANGED <<threads, ret_mm, ret_deg>>

\* line 131: return _tile_radius_deg
DegReturn(t) ==
    /\ thr[t].pc = "d5"
    /\ ret_deg' = ret_deg \cup {tile_radius_deg}
    /\ thr' = [thr EXCEPT ![t].pc = "idle", ![t].top = "none",
                          ![t].log = Append(@, <<"deg", tile_radius_deg>>)]
    /\ UNCHANGED <<tile_radius_mm, tile_radius_deg, threads, ran, ret_mm>>

\* A fresh process with the threads T, each about to make n calls: both
\* globals None
InitCache(T, n) ==
    /\ tile_radius_mm = << >>
    /\ tile_radius_deg = << >>
    /\ threads = T
    /\ thr = [t \in T |-> Idle(n)]
    /\ ran = [mm |-> 0, deg |-> 0, load_fiberpos |-> 0, load_platescale |-> 0]
    /\ ret_mm = {}
    /\ ret_deg = {}

CacheIdle == InitCache({}, 0)

NextCache ==
    \E t \in threads :
        \/ CallMm(t)
        \/ CallDeg(t)
        \/ MmCheck(t)
        \/ MmLoad(t)
        \/ MmStore(t)
        \/ MmReturn(t)
        \/ DegCheck(t)
        \/ DegLoad(t)
        \/ DegStore(t)
        \/ DegReturn(t)

\* ---------------------------------------------------------- footprint ----

\* Tables of 1..n tiles with centres from E
TileTables(E, n) == UNION { [1..k -> E] : k \in 1..n }

TileElems == { <<0, 0>>, <<150, 0>> }

\* The shapes of the query arrays: a scalar, a vector of 1..n values, a
\* 1 x 1 matrix
Shapes(n) == { << >>, <<1, 1>> } \cup { <<k>> : k \in 1..n }

Size(sh) == IF Len(sh) = 0 THEN 1 ELSE IF Len(sh) = 1 THEN sh[1] ELSE sh[1] * sh[2]

\* The arrays ra, dec of one shape holding the points w
PointArrays(sh, w) ==
    << [shape |-> sh, v |-> [i \in 1..Size(sh) |-> w[i][1]]],
       [shape |-> sh, v |-> [i \in 1..Size(sh) |-> w[i][2]]] >>

PointElems == { <<0, 0>>, <<60, 0>>, <<60, 30>> }

\* The query arrays: of one shape with points from E, or of two different
\* shapes with ra = 60 and dec = 0 throughout
QueryArrays(E, n) ==
    UNION { { PointArrays(sh, w) : w \in [1..Size(sh) -> E] } : sh \in Shapes(n) }
    \cup { << [shape |-> sh[1], v |-> [i \in 1..Size(sh[1]) |-> 60]],
              [shape |-> sh[2], v |-> [i \in 1..Size(sh[2]) |-> 0]] >> :
           sh \in { q \in Shapes(n) \X Shapes(n) : q[1] # q[2] } }

\* Radii in degrees; a radius r has threshold 2 sin(r/2)
Radii == { 2, 60, 400 }

\* The columns tiles['RA'] and tiles['DEC']
Column(t, c) == [shape |-> <<Len(t)>>, v |-> [i \in 1..Len(t) |-> t[i][c]]]

ndim(a) == Len(a.shape)

\* numpy broadcasting of two shapes: aligned at the last axis, the axes
\* equal or one of them 1
PadShape(sh, k) ==
    [i \in 1..k |-> IF i <= k - Len(sh) THEN 1 ELSE sh[i - (k - Len(sh))]]

Broadcastable(s1, s2) ==
    \A i \in 1..Max2(Len(s1), Len(s2)) :
        \/ PadShape(s1, Max2(Len(s1), Len(s2)))[i] = PadShape(s2, Max2(Len(s1), Len(s2)))[i]
        \/ PadShape(s1, Max2(Len(s1), Len(s2)))[i] = 1
        \/ PadShape(s2, Max2(Len(s1), Len(s2)))[i] = 1

BroadcastShape(s1, s2) ==
    [i \in 1..Max2(Len(s1), Len(s2)) |->
        Max2(PadShape(s1, Max2(Len(s1), Len(s2)))[i],
             PadShape(s2, Max2(Len(s1), Len(s2)))[i])]

\* _embed_sphere: x and y have the broadcast shape of ra and dec, z has the
\* shape of dec, and np.array((x, y, z)) needs the three shapes equal
embed_sphere_ok(a, d) ==
    /\ Broadcastable(a.shape, d.shape)
    /\ BroadcastShape(a.shape, d.shape) = d.shape

\* One point of _embed_sphere, ra and dec in whole degrees: the unit vector
\* times Scale
embed_point(a, d) ==
    << Mul(SinDeg(90 - d), CosDeg(a)), Mul(SinDeg(90 - d), SinDeg(a)),
       CosDeg(90 - d) >>

\* _embed_sphere(ra, dec), the points row by row
embed_sphere(a, d) == [j \in 1..Len(d.v) |-> embed_point(At(a.v, j), d.v[j])]

\* The Euclidean distance of two embedded points, times Scale
Chord(p, q) ==
    Isqrt((p[1] - q[1]) * (p[1] - q[1]) + (p[2] - q[2]) * (p[2] - q[2])
          + (p[3] - q[3]) * (p[3] - q[3]))

\* threshold = 2.0 * np.sin(np.radians(radius) * 0.5), times Scale
threshold(r) == 2 * SinDeg(r \div 2)

\* cKDTree.query(xyz, k=1): the distance to the nearest point of the tree
kd_nearest(tree, x) ==
    LET ds == { Chord(tree[i], x) : i \in 1..Len(tree) }
    IN  CHOOSE d \in ds : \A e \in ds : d <= e

\* and the (0-based) indices it may return: the points at that distance
kd_nearest_indices(tree, x) ==
    LET dmin == kd_nearest(tree, x)
    IN  { i - 1 : i \in { k \in 1..Len(tree) : Chord(tree[k], x) = dmin } }

\* the index arrays cKDTree.query(xyz, k=1) may return
kd_query_indices(tree, xyz) ==
    LET near == [j \in 1..Len(xyz) |-> kd_nearest_indices(tree, xyz[j])]
    IN  { i \in [1..Len(xyz) -> 0..(Len(tree) - 1)] :
            \A j \in 1..Len(xyz) : i[j] \in near[j] }

\* cKDTree.query_ball_point(xyz, r): per query point the (0-based) indices of
\* the points of the tree with squared distance at most r squared
kd_within(p, q, r) == Chord(p, q) * Chord(p, q) <= r * r

kd_query_ball_point(tree, xyz, r) ==
    [j \in 1..Len(xyz) |->
        { i - 1 : i \in { k \in 1..Len(tree) : kd_within(tree[k], xyz[j], r) } }]

Failed(err) == [outcome |-> err, value |-> << >>, index |-> << >>]

NotCalled == Failed("none")

\* indesi = d < threshold
is_point_in_desi_inclusive(t, a, d, r) ==
    LET tree == embed_sphere(Column(t, 1), Column(t, 2))
        xyz == embed_sphere(a, d)
    IN  [j \in 1..Len(xyz) |-> kd_nearest(tree, xyz[j]) <= threshold(r)]

is_point_in_desi(t, a, d, r) ==
    LET tree == embed_sphere(Column(t, 1), Column(t, 2))
        xyz == embed_sphere(a, d)
    IN  [j \in 1..Len(xyz) |-> kd_nearest(tree, xyz[j]) < threshold(r)]

\* find_tiles_over_point: per point the tiles within the threshold
find_tiles_over_point(t, a, d, r) ==
    kd_query_ball_point(embed_sphere(Column(t, 1), Column(t, 2)),
                        embed_sphere(a, d), threshold(r))

\* find_points_in_tiles: per tile the points within the threshold
find_points_in_tiles_no_half(t, a, d, r) ==
    kd_query_ball_point(embed_sphere(a, d),
                        embed_sphere(Column(t, 1), Column(t, 2)), 2 * SinDeg(r))

find_points_in_tiles(t, a, d, r) ==
    kd_query_ball_point(embed_sphere(a, d),
                        embed_sphere(Column(t, 1), Column(t, 2)), threshold(r))

\* The call is_point_in_desi(tiles, ra, dec, radius, return_tile_index)
IsPointInDesi(return_tile_index) ==
    /\ in_desi = NotCalled
    /\ IF ~embed_sphere_ok(pt_ra, pt_dec)
       THEN in_desi' = Failed("ValueError")
       ELSE IF ~return_tile_index
       THEN in_desi' = [outcome |-> "ok",
                        value |-> is_point_in_desi(tiles, pt_ra, pt_dec, radius_deg),
                        index |-> << >>]
       ELSE \E i \in kd_query_indices(
                         embed_sphere(Column(tiles, 1), Column(tiles, 2)),
                         embed_sphere(pt_ra, pt_dec)) :
              in_desi' = [outcome |-> "ok",
                          value |-> is_point_in_desi(tiles, pt_ra, pt_dec, radius_deg),
                          index |-> i]
    /\ UNCHANGED <<tiles, pt_ra, pt_dec, radius_deg, tiles_over, points_in>>

\* The call find_tiles_over_point(tiles, ra, dec, radius)
FindTilesOverPoint ==
    /\ tiles_over = NotCalled
    /\ tiles_over' =
         IF ~embed_sphere_ok(pt_ra, pt_dec) THEN Failed("ValueError")
         ELSE [outcome |-> "ok",
               value |-> find_tiles_over_point(tiles, pt_ra, pt_dec, radius_deg),
               index |-> << >>]
    /\ UNCHANGED <<tiles, pt_ra, pt_dec, radius_deg, in_desi, points_in>>

\* The call find_points_in_tiles(tiles, ra, dec, radius): the two asserts,
\* then the embedding, then the query
FindPointsInTiles ==
    /\ points_in = NotCalled
    /\ points_in' =
         IF ndim(pt_ra) # 1 \/ ndim(pt_dec) # 1 THEN Failed("AssertionError")
         ELSE IF ~embed_sphere_ok(pt_ra, pt_dec) THEN Failed("ValueError")
         ELSE [outcome |-> "ok",
               value |-> find_points_in_tiles(tiles, pt_ra, pt_dec, radius_deg),
               index |-> << >>]
    /\ UNCHANGED <<tiles, pt_ra, pt_dec, radius_deg, in_desi, tiles_over>>

\* A tile table, two query arrays and a radius, no function called yet
InitFootprint(T, Q, R) ==
    /\ tiles \in T
    /\ \E q \in Q : pt_ra = q[1] /\ pt_dec = q[2]
    /\ radius_deg \in R
    /\ in_desi = NotCalled
    /\ tiles_over = NotCalled
    /\ points_in = NotCalled

FootprintIdle ==
    InitFootprint({<< <<0, 0>> >>}, {PointArrays(<< >>, << <<0, 0>> >>)}, {2})

NextFootprint ==
    \/ \E f \in BOOLEAN : IsPointInDesi(f)
    \/ FindTilesOverPoint
    \/ FindPointsInTiles

\* ------------------------------------------------------ tiles to pixels ----

\* desimodel.io.load_tiles(): the catalog, rows of <<TILEID, RA, DEC>>
load_tiles == << <<1, 10, 0>>, <<2, 100, 0>>, <<3, 200, 0>> >>

\* The ids a request is made of: 1 and 3 are in the catalog, 7 and 8 are not
IdPool == { 1, 3, 7, 8 }

TileIdLists(n) == UNION { [1..k -> IdPool] : k \in 1..n }

\* The rows of a table picked by a boolean mask, in the table's order
RECURSIVE Masked(_, _)
Masked(t, ii) ==
    IF Len(t) = 0 THEN << >>
    ELSE IF Head(ii) THEN <<Head(t)>> \o Masked(Tail(t), Tail(ii))
    ELSE Masked(Tail(t), Tail(ii))

\* np.in1d(column, ids): per row, whether its value is among ids
in1d(column, ids) ==
    [i \in 1..Len(column) |-> \E k \in 1..Len(ids) : ids[k] = column[i]]

count_nonzero(ii) == Cardinality({ i \in 1..Len(ii) : ii[i] })

\* hp.query_disc(nside, vec, radius, inclusive=True) for a centre on the
\* equator, on a pixelisation of the equator in 4 * nside pixels of equal
\* width: the pixels that the arc from ra - radius to ra + radius touches
query_disc(nside, tra, r) ==
    { (d % 360) \div (90 \div nside) : d \in (tra - r)..(tra + r) }

\* tiles2pix(nside, tiles, radius, per_tile) for an explicit table and radius:
\* the pixels per tile, or their sorted union
tiles2pix(nside, t, r, per_tile) ==
    IF per_tile THEN [i \in 1..Len(t) |-> query_disc(nside, t[i][2], r)]
    ELSE UNION { query_disc(nside, t[i][2], r) : i \in 1..Len(t) }

\* if np.count_nonzero(ii) > 0
any_matched(ids, ii) == count_nonzero(ii) > 0

\* tileids2pix(nside, tileids, radius, per_tile): the error names tileids as
\* it was passed
tileids2pix(nside, ids, r, per_tile) ==
    IF any_matched(ids, in1d([i \in 1..Len(load_tiles) |-> load_tiles[i][1]], ids))
    THEN [outcome |-> "ok", named |-> { },
          value |-> tiles2pix(nside,
                              Masked(load_tiles,
                                     in1d([i \in 1..Len(load_tiles) |-> load_tiles[i][1]], ids)),
                              r, per_tile)]
    ELSE [outcome |-> "ValueError", named |-> { ids[k] : k \in 1..Len(ids) },
          value |-> << >>]

\* The call tileids2pix(nside, tileids, radius=r, per_tile=per_tile)
Tileids2pix(nside, ids, r, per_tile) ==
    /\ pix_args' = [nside |-> nside, tileids |-> ids, radius |-> r,
                    per_tile |-> per_tile]
    /\ pix_out' = tileids2pix(nside, ids, r, per_tile)

\* Nothing called yet
PixIdle ==
    /\ pix_args = [nside |-> 0, tileids |-> << >>, radius |-> 0, per_tile |-> FALSE]
    /\ pix_out = [outcome |-> "none", named |-> { }, value |-> << >>]

NextPix ==
    \E nside \in {1, 2}, ids \in TileIdLists(MaxIds), r \in {2, 50},
       per_tile \in BOOLEAN :
        Tileids2pix(nside, ids, r, per_tile)

\* ------------------------------------------- plate_angle, step by step ----

\* In this part an angle is in units of 1E-8 rad, a plate distance in units
\* of 1E-4 mm, and the code's tolerance of 1E-8 mm, some 1E5 times the
\* resolution of its arithmetic at 400 mm, is 10 units of distance.
Tolerance == 10

\* The 1E-5 rad of the difference quotient, in units of angle
DerivativeStep == 1000

\* Quotient and remainder of a * b by c for a, b >= 0 and 0 < c < 2^26,
\* without an intermediate value beyond 32 bits: b is taken four bits at a
\* time
MulDivQRStep(h, a, digit, c) ==
    << 16 * h[1] + digit * (a \div c) + (16 * h[2] + digit * (a % c)) \div c,
       (16 * h[2] + digit * (a % c)) % c >>

MulDivRound(qr, c) == qr[1] + (IF 2 * qr[2] >= c THEN 1 ELSE 0)

RECURSIVE MulDivQR(_, _, _)
MulDivQR(a, b, c) ==
    IF b = 0 THEN <<0, 0>>
    ELSE MulDivQRStep(MulDivQR(a, b \div 16, c), a, b % 16, c)

\* a * b / c to the nearest integer, c > 0 (the three are evaluated first)
MulDivS(a, b, c) ==
    CHOOSE q \in { Sign(x) * Sign(y) * MulDivRound(MulDivQR(Abs(x), Abs(y), z), z) :
                   x \in {a}, y \in {b}, z \in {c} } : TRUE

\* FocalPlane.plate_dist at full resolution: the Horner steps
\* radius = theta * radius + p[i], the first in units of 1E-2 mm/rad^2, the
\* second in units of 1E-3 mm/rad
plate_dist_fine(t) ==
    MulDivS(MulDivS(MulDivS(t, 8297, 10000) - 175000, t, 10000000)
            + 13940000,
            t, 10000000)

\* np.fabs(dist_guess) > 1E-8, per element
exceeds(d) == Abs(d) > Tolerance

\* np.any(np.fabs(dist_guess) > 1E-8)
loop_test_all(ds) == \A i \in 1..Len(ds) : exceeds(ds[i])

loop_test(ds) == \E i \in 1..Len(ds) : exceeds(ds[i])

\* One run of the loop body on one element: the new angle_guess
newton_step(a, d) ==
    a + MulDivS(-d, DerivativeStep,
                plate_dist_fine(a + DerivativeStep) - plate_dist_fine(a))

\* plate_angle(radius) up to the first test of the loop
PlateAngleCall(r) ==
    /\ pa_pc \in {"idle", "done"}
    /\ pa_radius' = r
    /\ angle_guess' = [i \in 1..Len(r) |-> 0 * r[i]]
    /\ dist_guess' = [i \in 1..Len(r) |-> plate_dist_fine(0 * r[i]) - r[i]]
    /\ pa_pc' = "loop"
    /\ pa_iter' = 0

\* The loop test holds: the body runs on every element
PlateAngleIterate ==
    /\ pa_pc = "loop"
    /\ pa_iter < MaxIter
    /\ loop_test(dist_guess)
    /\ angle_guess' = [i \in 1..Len(pa_radius) |->
                          newton_step(angle_guess[i], dist_guess[i])]
    /\ dist_guess' = [i \in 1..Len(pa_radius) |->
                         plate_dist_fine(newton_step(angle_guess[i], dist_guess[i]))
                         - pa_radius[i]]
    /\ pa_iter' = pa_iter + 1
    /\ UNCHANGED <<pa_radius, pa_pc>>

\* The loop test fails: return angle_guess
PlateAngleReturn ==
    /\ pa_pc = "loop"
    /\ ~loop_test(dist_guess)
    /\ pa_pc' = "done"
    /\ UNCHANGED <<pa_radius, angle_guess, dist_guess, pa_iter>>

\* No call of plate_angle yet
NewtonIdle ==
    /\ pa_radius = << >>
    /\ angle_guess = << >>
    /\ dist_guess = << >>
    /\ pa_pc = "idle"
    /\ pa_iter = 0

\* Radii of the operating range, 0 to plate_dist(0.03 rad) = 439.0 mm
RadiusElems == { 0, 1, 139400, 2500000, plate_dist_fine(3000000) }

RadiusArrays == UNION { [1..k -> RadiusElems] : k \in 1..MaxLen }

NextNewton ==
    \/ \E r \in RadiusArrays : PlateAngleCall(r)
    \/ PlateAngleIterate
    \/ PlateAngleReturn

\* ------------------------------------------------------ specifications ----

vars == <<fpvars, cachevars, footvars, pixvars, newtonvars>>

\* A FocalPlane instance called with arguments on and around the bounds of
\* the valid range
Init == InitFocalPlane(BoundaryArrays) /\ CacheIdle /\ FootprintIdle /\ PixIdle
    /\ NewtonIdle

Next == NextFocalPlane(BoundaryArrays) /\ UNCHANGED <<cachevars, footvars, pixvars, newtonvars>>

Spec == Init /\ [][Next]_vars

\* A FocalPlane instance called with pointings and objects tens of degrees
\* apart
InitRT == InitFocalPlane(GridArrays) /\ CacheIdle /\ FootprintIdle /\ PixIdle
    /\ NewtonIdle

NextRT == NextFocalPlane(GridArrays) /\ UNCHANGED <<cachevars, footvars, pixvars, newtonvars>>

SpecRT == InitRT /\ [][NextRT]_vars

\* One thread calling get_tile_radius_mm and get_tile_radius_deg MaxCalls
\* times in any order
InitCache1 == InitCache({1}, MaxCalls) /\ FocalPlaneIdle /\ FootprintIdle /\ PixIdle
    /\ NewtonIdle

NextCache1 == NextCache /\ UNCHANGED <<fpvars, footvars, pixvars, newtonvars>>

SpecCache1 == InitCache1 /\ [][NextCache1]_vars

\* NThreads threads calling them MaxCallsMT times each, interleaved between
\* any two statements
InitCacheMT == InitCache(1..NThreads, MaxCallsMT) /\ FocalPlaneIdle /\ FootprintIdle /\ PixIdle
    /\ NewtonIdle

NextCacheMT == NextCache /\ UNCHANGED <<fpvars, footvars, pixvars, newtonvars>>

SpecCacheMT == InitCacheMT /\ [][NextCacheMT]_vars

\* The footprint queries on tile tables of 1..MaxTiles rows and query arrays
\* of up to MaxPts values
InitFoot ==
    /\ InitFootprint(TileTables(TileElems, MaxTiles),
                     QueryArrays(PointElems, MaxPts), Radii)
    /\ FocalPlaneIdle
    /\ CacheIdle
    /\ PixIdle
    /\ NewtonIdle

NextFoot == NextFootprint /\ UNCHANGED <<fpvars, cachevars, pixvars, newtonvars>>

SpecFoot == InitFoot /\ [][NextFoot]_vars

\* tileids2pix called with lists of up to MaxIds tile ids
InitPix == PixIdle /\ FocalPlaneIdle /\ CacheIdle /\ FootprintIdle
    /\ NewtonIdle

NextTileids == NextPix /\ UNCHANGED <<fpvars, cachevars, footvars, newtonvars>>

SpecPix == InitPix /\ [][NextTileids]_vars

\* plate_angle called with arrays of up to MaxLen radii of the operating
\* range; a call that has started keeps running
InitNewton ==
    NewtonIdle /\ FocalPlaneIdle /\ CacheIdle /\ FootprintIdle /\ PixIdle

NextPlateAngle == NextNewton /\ UNCHANGED <<fpvars, cachevars, footvars, pixvars>>

\* The steps of a call that has started: the interpreter keeps taking them
RunPlateAngle ==
    /\ PlateAngleIterate \/ PlateAngleReturn
    /\ UNCHANGED <<fpvars, cachevars, footvars, pixvars>>

SpecNewton ==
    /\ InitNewton
    /\ [][NextPlateAngle]_vars
    /\ WF_vars(RunPlateAngle)

\* ------------------------------------------------ claims: FocalPlane ----

\* Some element of r or d lies outside 0 <= ra < 360, -90 <= dec <= 90
OutOfRange(r, d) ==
    \/ \E i \in 1..Len(r) : r[i] < 0 \/ r[i] >= 360 * DegUnit
    \/ \E i \in 1..Len(d) : d[i] < -90 * DegUnit \/ d[i] > 90 * DegUnit

C2_AllOrNothing ==
    [][op' = "set_tele_pointing" =>
          IF OutOfRange(arg1', arg2')
          THEN outcome' = "InvalidCoordinate" /\ ra' = ra /\ dec' = dec
          ELSE outcome' = "ok" /\ ra' = arg1' /\ dec' = arg2']_vars

\* C2's case: a re-pointing whose ra is valid and differs from the stored
\* one, and whose dec is out of range, was refused
C2_Witness ==
    /\ op = "set_tele_pointing"
    /\ outcome = "InvalidCoordinate"
    /\ ~ OutOfRange(arg1, << 0 >>)
    /\ OutOfRange(<< 0 >>, arg2)
    /\ arg1 # ra

\* C3: the constructor, set_tele_pointing and radec2xy raise
\* InvalidCoordinate exactly when some element is out of range (ra < 0,
\* ra >= 360, dec < -90, dec > 90), and they raise it before any transform is
\* computed and without a result.
C3_ValidationExact ==
    op \in {"init", "set_tele_pointing", "radec2xy"} =>
        /\ (outcome = "InvalidCoordinate") <=> OutOfRange(arg1, arg2)
        /\ outcome = "InvalidCoordinate" =>
               ~ computed /\ res1 = << >> /\ res2 = << >>

\* C3's case: radec2xy of an array whose second ra is 360 was refused, with
\* the first element on the valid bounds ra = 0, dec = -90
C3_Witness ==
    /\ op = "radec2xy"
    /\ Len(arg1) = 2
    /\ arg1[1] = 0
    /\ arg2[1] = -90 * DegUnit
    /\ arg1[2] = 360 * DegUnit
    /\ outcome = "InvalidCoordinate"
    /\ ~ computed

\* The distance of two right ascensions around the circle
RaDistance(a, b) ==
    IF Abs(a - b) <= 180 * DegUnit THEN Abs(a - b) ELSE 360 * DegUnit - Abs(a - b)

\* The tolerance of the round trip in the model: the claim's 1e-6 degrees is
\* below the model's resolution of one degree, so a round trip that misses
\* by more than RoundTripTol misses the claim's tolerance too.
RoundTripTol == 2 * DegUnit

\* C4: radec2xy and then xy2radec under the same pointing return the object's
\* (ra, dec), here to within RoundTripTol.
C4_RoundTrip ==
    (op = "xy2radec" /\ outcome = "ok" /\ obj_ra # << >>) =>
        \A i \in 1..Len(res1) :
            /\ RaDistance(res1[i], At(obj_ra, i)) <= RoundTripTol
            /\ Abs(res2[i] - At(obj_dec, i)) <= RoundTripTol

\* C11: radec2pos raises Unimplemented for every input, in range or not, of
\* one element or more, under every pointing; it returns nothing and leaves
\* the stored pointing as it was.
C11_Unimplemented ==
    [][op' = "radec2pos" =>
          /\ outcome' = "Unimplemented"
          /\ res1' = << >>
          /\ res2' = << >>
          /\ ra' = ra
          /\ dec' = dec]_vars

\* C11's case: radec2pos was called with a coordinate out of range, under a
\* pointing other than the arguments, and raised Unimplemented
C11_Witness ==
    /\ op = "radec2pos"
    /\ OutOfRange(arg1, arg2)
    /\ outcome = "Unimplemented"
    /\ res1 = << >>
    /\ ra # arg1

C6_ComputedOnce ==
    /\ [](/\ ran.mm <= 1
          /\ ran.deg <= 1
          /\ ran.load_fiberpos <= 1
          /\ ran.load_platescale <= 1
          /\ Cardinality(ret_mm) <= 1
          /\ Cardinality(ret_deg) <= 1)
    /\ [][/\ tile_radius_mm # << >> => tile_radius_mm' = tile_radius_mm
          /\ tile_radius_deg # << >> => tile_radius_deg' = tile_radius_deg]_vars

\* C6's case: the thread has finished MaxCalls calls, both computations ran,
\* and both functions returned their cached value
C6_Witness ==
    /\ threads = {1}
    /\ Len(thr[1].log) = MaxCalls
    /\ ran.mm = 1
    /\ ran.deg = 1
    /\ ret_mm = {tile_radius_mm}
    /\ ret_deg = {tile_radius_deg}
    /\ tile_radius_mm # << >>
    /\ tile_radius_deg # << >>

\* C7: with several threads a computation may run more than once, but all
\* calls of a function return the same value, a returned value is never None,
\* and a global that holds a value keeps it.
C7_SameValue ==
    /\ [](/\ Cardinality(ret_mm) <= 1
          /\ Cardinality(ret_deg) <= 1
          /\ << >> \notin ret_mm
          /\ << >> \notin ret_deg)
    /\ [][/\ tile_radius_mm # << >> => tile_radius_mm' = tile_radius_mm
          /\ tile_radius_deg # << >> => tile_radius_deg' = tile_radius_deg]_vars

\* C7's case: two first calls raced, both computations ran twice, and both
\* functions have returned
C7_Witness ==
    /\ ran.mm >= 2
    /\ ran.deg >= 2
    /\ ret_mm # {}
    /\ ret_deg # {}

\* ------------------------------------------- claims: tiles to pixels ----

\* The requested ids that are not in the catalog
AbsentIds ==
    { pix_args.tileids[k] : k \in 1..Len(pix_args.tileids) }
    \ { load_tiles[i][1] : i \in 1..Len(load_tiles) }

\* C5: tileids2pix fails whenever a requested id is not in the catalog, the
\* error naming exactly the ids that are not, and returns pixels only when
\* every requested id is in the catalog.
C5_AbsentIdRaises ==
    pix_out.outcome # "none" =>
        IF AbsentIds # { }
        THEN pix_out.outcome = "ValueError" /\ pix_out.named = AbsentIds
        ELSE pix_out.outcome = "ok"

\* ------------------------------------------------- claims: footprint ----

\* The chord between the centre of tile i and query point j (both 1-based)
TileToPoint(i, j) ==
    Chord(embed_point(tiles[i][1], tiles[i][2]),
          embed_point(At(pt_ra.v, j), pt_dec.v[j]))

\* Query point j lies at the centre of a tile
AtTileCentre(j) ==
    \E i \in 1..Len(tiles) : tiles[i] = <<At(pt_ra.v, j), pt_dec.v[j]>>

\* C8: find_points_in_tiles and find_tiles_over_point are transposes: point j
\* is in the set of tile i exactly when tile i is in the set of point j.
C8_Transpose ==
    (points_in.outcome = "ok" /\ tiles_over.outcome = "ok") =>
        \A i \in 1..Len(tiles) : \A j \in 1..Len(pt_dec.v) :
            (j - 1) \in points_in.value[i] <=> (i - 1) \in tiles_over.value[j]

\* C8's case: both functions returned for two or more tiles and points, with
\* a point inside a tile and a point outside a tile
C8_Witness ==
    /\ points_in.outcome = "ok"
    /\ tiles_over.outcome = "ok"
    /\ Len(tiles) >= 2
    /\ pt_ra.shape = pt_dec.shape
    /\ Len(pt_dec.v) >= 2
    /\ \E i \in 1..Len(tiles) : \E j \in 1..Len(pt_dec.v) :
           (j - 1) \in points_in.value[i] /\ (i - 1) \in tiles_over.value[j]
    /\ \E i \in 1..Len(tiles) : \E j \in 1..Len(pt_dec.v) :
           (j - 1) \notin points_in.value[i] /\ (i - 1) \notin tiles_over.value[j]

C10_ShapeChecked ==
    points_in.outcome # "none" =>
        /\ points_in.outcome = "ok" <=>
               (ndim(pt_ra) = 1 /\ ndim(pt_dec) = 1 /\ pt_ra.shape = pt_dec.shape)
        /\ points_in.outcome # "ok" => points_in.value = << >>

\* C13: for the same tiles, points and radius is_point_in_desi and
\* find_tiles_over_point agree: a point is reported covered exactly when the
\* set of tiles over it is not empty, also at a chord of exactly
\* 2 sin(radius/2) from the nearest tile.  Stated for the radii below 360
\* degrees, where the threshold is not negative.
C13_CoverageAgrees ==
    (in_desi.outcome = "ok" /\ tiles_over.outcome = "ok" /\ radius_deg < 360) =>
        \A j \in 1..Len(pt_dec.v) :
            in_desi.value[j] <=> tiles_over.value[j] # { }

=============================================================================
